---- MODULE Spec2Model ----
(***************************************************************************)
(* Model of the two notebooks of auto-shorts/youtube-downloader:           *)
(*                                                                         *)
(*   - the async notebook (src/unnamed/part_000): to_async, which turns a  *)
(*     blocking callable into a coroutine function that runs it with       *)
(*     loop.run_in_executor, and main(), which gathers four call_api_func  *)
(*     coroutines;                                                         *)
(*   - the statistics notebook (src/notebooks/aggregated_stats.ipynb): the *)
(*     bucket scan loop that fills all_data, the merge with the videos     *)
(*     table and the grouped statistics.                                   *)
(*                                                                         *)
(* The event loop is one thread with a FIFO queue of ready handles; the    *)
(* executors are thread pools with a FIFO work queue.  Time is counted in  *)
(* the seconds of sleep(3): a handle run by the event loop is CPU work of  *)
(* microseconds, so a second passes only when the loop thread has nothing  *)
(* ready to run or is itself blocked inside a blocking call.               *)
(***************************************************************************)
EXTENDS Integers, Sequences, FiniteSets, TLC

VARIABLES
    cpu,        \* os.cpu_count() of the machine the notebook runs on
    calls,      \* the coroutines awaited: <<[func, args, kw]>>, kw the keywords given to run
    parent,     \* who awaits the tasks: "gather" (main) or "toplevel" (a direct await)
    ready,      \* the event loop's FIFO of ready handles [h, i]
    pool,       \* per executor: threads spawned, idle semaphore, work queue of call ids
    cfut,       \* per call: the concurrent.futures.Future of executor.submit
    afut,       \* per call: the asyncio future of wrap_future, awaited by run
    body,       \* per call: the wrapped callable's execution [st, thread, left, pool]
    invoked,    \* per call: what the callable was called with, where, how often
    finished,   \* call ids in the order their bodies finished
    submitted,  \* call ids in the order they were handed to run_in_executor
    task,       \* per call: the task of the awaiting coroutine [st, res]
    outer,      \* the future of gather: [nfinished, st, results, from, exc]
    mainpc,     \* where main is: "idle", "start", "awaiting", "printed", "raised"
    printed,    \* the lines print wrote: a sequence of lists
    logged,     \* exceptions the loop's exception handler logged for a failed callback
    bucket,     \* the objects bucket.objects.all() has listed so far
    all_data,   \* the scan loop's dictionary, as its items [k, v] in insertion order
    scanpc,     \* the scan cell: "idle", "loop", "done", "failed", then the later cells
    scan_exc,   \* the exception that ended the scan cell, or None
    df,         \* the rows [s3_path, vid_len] made of all_data
    df_vids,    \* the rows read from autoshorts.videos: [s3_path, category_id]
    final_df,   \* the merged rows [s3_path, vid_len, category_id]
    stats       \* the grouped statistics: category_id -> [min, max, count, median, mean]

avars == <<cpu, calls, parent, ready, pool, cfut, afut, body, invoked, finished,
           submitted, task, outer, mainpc, printed, logged>>
svars == <<bucket, all_data, scanpc, scan_exc, df, df_vids, final_df, stats>>
vars == <<avars, svars>>

None == "None"

Min(a, b) == IF a < b THEN a ELSE b

\* Bounds of the model.
MaxCpu == 2
MaxArgs == 2
MaxObjects == 2
MaxVideos == 2
MaxRows == 2

(***************************************************************************)
(* The callables handed to to_async, and what calling them does.           *)
(***************************************************************************)

\* sleep(3) of api_func, in seconds.
sleep_secs == 3

EmptyKw == [k \in {} |-> None]

Return(v) == [kind |-> "return", value |-> v]
Raise(e) == [kind |-> "raise", exc |-> e]

\* The callables a caller may wrap.  api_func is the notebook's; the others stand
\* for any blocking callable: echo returns the arguments it was called with (any
\* other return value is a function of them), fail raises an ordinary exception,
\* next_item is next() on an exhausted iterator, and cancelled_result is
\* result() of a cancelled concurrent future.
Callables == {"api_func", "echo", "fail", "next_item", "cancelled_result"}

\* The callable called directly with positional args and keywords kwargs.
Apply(func, args, kwargs) ==
    CASE func = "api_func" ->
            IF args = <<>> /\ DOMAIN kwargs = {}
            THEN Return(1)
            ELSE Raise("TypeError")
      [] func = "echo" -> Return([args |-> args, kwargs |-> kwargs])
      [] func = "fail" -> Raise("ValueError")
      [] func = "next_item" -> Raise("StopIteration")
      [] func = "cancelled_result" -> Raise("concurrent.futures.CancelledError")

\* How many seconds the call blocks before it returns: api_func sleeps, the
\* others (and a call that fails on its arguments) do not.
Seconds(func, args, kwargs) ==
    IF func = "api_func" /\ Apply(func, args, kwargs).kind = "return"
    THEN sleep_secs ELSE 0

\* functools.partial of func with args and kwargs, and the call pfunc().
partial(func, args, kwargs) == [func |-> func, args |-> args, keywords |-> kwargs]
CallPartial(pfunc) == Apply(pfunc.func, pfunc.args, pfunc.keywords)

(***************************************************************************)
(* to_async: the coroutine function run that wraps func.                   *)
(***************************************************************************)

\* run as it would be with the caller's keywords left out of the partial.
run_drops_keywords(func, args, kw) ==
    [via |-> "run_in_executor", loop |-> "get_event_loop",
     executor |-> IF "executor" \in DOMAIN kw THEN kw["executor"] ELSE None,
     pfunc |-> partial(func, args, EmptyKw)]

\* run as it would be if it called pfunc() itself instead of handing it to the
\* executor.
run_inline(func, args, kw) ==
    [via |-> "inline", loop |-> "get_event_loop", executor |-> None,
     pfunc |-> partial(func, args,
                       [k \in (DOMAIN kw) \ {"loop", "executor"} |-> kw[k]])]

\* run up to its await: args are the positional arguments, kw holds every
\* keyword the caller gave; loop and executor are run's own keyword-only
\* parameters, the rest is **kwargs.
run(func, args, kw) ==
    LET loop == IF "loop" \in DOMAIN kw /\ kw["loop"] # None
                THEN kw["loop"] ELSE "get_event_loop"
        executor == IF "executor" \in DOMAIN kw THEN kw["executor"] ELSE None
        kwargs == [k \in (DOMAIN kw) \ {"loop", "executor"} |-> kw[k]]
        pfunc == partial(func, args, kwargs)
    IN  [via |-> "run_in_executor", loop |-> loop, executor |-> executor,
         pfunc |-> pfunc]

\* _executor = ThreadPoolExecutor(1)
_executor == [name |-> "_executor", max_workers |-> 1]

Executors == {"default", _executor.name}

\* The pool run_in_executor submits to: the loop's default executor when the
\* executor argument is None.
ExecutorOf(executor) == IF executor = None THEN "default" ELSE executor

\* ThreadPoolExecutor's max_workers: the default executor is created with
\* ThreadPoolExecutor(), that is min(32, os.cpu_count() + 4).
max_workers(e) ==
    IF e = _executor.name THEN _executor.max_workers ELSE Min(32, cpu + 4)

\* submit as it would be if it queued the work item twice.
submit_twice(p, i, maxw) ==
    [threads |-> IF p.threads < maxw THEN p.threads + 1 ELSE p.threads,
     idle    |-> 0,
     queue   |-> Append(Append(p.queue, i), i)]

\* submit as it would be if the new work item replaced the queue.
submit_overwrites(p, i, maxw) ==
    [threads |-> IF p.threads < maxw THEN p.threads + 1 ELSE p.threads,
     idle    |-> 0,
     queue   |-> <<i>>]

\* ThreadPoolExecutor.submit: queue the work item, then _adjust_thread_count
\* (reuse an idle thread, else spawn one while below max_workers).
submit(p, i, maxw) ==
    [threads |-> IF p.idle > 0 THEN p.threads
                 ELSE IF p.threads < maxw THEN p.threads + 1 ELSE p.threads,
     idle    |-> IF p.idle > 0 THEN p.idle - 1 ELSE 0,
     queue   |-> Append(p.queue, i)]

Ids == DOMAIN calls

Busy(e) == Cardinality({i \in Ids : body[i].st = "running" /\ body[i].pool = e})

\* The loop thread is inside a blocking call.
LoopBlocked == \E i \in Ids : body[i].st = "running" /\ body[i].thread = "loop"

Handle(h, i) == [h |-> h, i |-> i]

Next_handle(h, i) == ready # <<>> /\ Head(ready) = Handle(h, i) /\ ~LoopBlocked

NoBody == [st |-> "none", thread |-> "none", left |-> 0, pool |-> None,
           pfunc |-> partial("none", <<>>, EmptyKw)]
NoCall == [args |-> <<>>, kwargs |-> EmptyKw, thread |-> "none", times |-> 0]
Pending == [kind |-> "pending"]
NoOuter == [nfinished |-> 0, st |-> "pending", results |-> <<>>, from |-> <<>>,
            exc |-> None]

\* asyncio.futures._convert_future_exc: the concurrent.futures exception classes
\* are replaced by their asyncio counterparts.
_convert_future_exc(exc) ==
    IF exc = "concurrent.futures.CancelledError" THEN "asyncio.CancelledError"
    ELSE exc

(***************************************************************************)
(* asyncio.gather as main uses it (return_exceptions=False).               *)
(***************************************************************************)

\* gather as it would be if the first finished child resolved the outer future.
gather_complete_first(nfinished, nfuts) == nfinished >= 1

\* gather as it would be if it appended the results as the children finish.
gather_order_completion(children, done) == done

\* gather's _done_callback resolves the outer future once every child is done.
gather_complete(nfinished, nfuts) == nfinished = nfuts

\* The order in which _done_callback reads the children's results: the order of
\* the arguments, whatever the order done in which they finished.
gather_order(children, done) == children

\* async def call_api_func(): result = await api_func(); return result
call_api_func == [func |-> "api_func", args |-> <<>>, kw |-> EmptyKw]

\* The coroutines main passes to asyncio.gather.
gather_args == <<call_api_func, call_api_func, call_api_func, call_api_func>>

(***************************************************************************)
(* Initial states.                                                         *)
(***************************************************************************)

AsyncInit(cs, p, first, pc) ==
    /\ calls = cs
    /\ parent = p
    /\ ready = first
    /\ pool = [e \in Executors |-> [threads |-> 0, idle |-> 0, queue |-> <<>>]]
    /\ cfut = [i \in DOMAIN cs |-> Pending]
    /\ afut = [i \in DOMAIN cs |-> Pending]
    /\ body = [i \in DOMAIN cs |-> NoBody]
    /\ invoked = [i \in DOMAIN cs |-> NoCall]
    /\ finished = <<>>
    /\ submitted = <<>>
    /\ task = [i \in DOMAIN cs |-> [st |-> "none", res |-> Pending]]
    /\ outer = NoOuter
    /\ mainpc = pc
    /\ printed = <<>>
    /\ logged = <<>>

ScanIdle ==
    /\ bucket = <<>>
    /\ all_data = <<>>
    /\ scanpc = "idle"
    /\ scan_exc = None
    /\ df = <<>>
    /\ df_vids = <<>>
    /\ final_df = <<>>
    /\ stats = EmptyKw

\* The cell "await main()": main is about to run on the event loop.
Init ==
    /\ cpu \in 1..MaxCpu
    /\ AsyncInit(gather_args, "gather", <<Handle("main_step", 0)>>, "start")
    /\ ScanIdle

(***************************************************************************)
(* The event loop's handles.                                               *)
(***************************************************************************)

\* main up to its await: gather wraps each coroutine in a task (ensure_future), and
\* each task's first step is scheduled with call_soon, in argument order.
MainStart ==
    /\ Next_handle("main_step", 0)
    /\ mainpc = "start"
    /\ mainpc' = "awaiting"
    /\ ready' = Tail(ready) \o [i \in DOMAIN calls |-> Handle("step", i)]
    /\ task' = [i \in Ids |-> [st |-> "scheduled", res |-> Pending]]
    /\ UNCHANGED <<cpu, calls, parent, pool, cfut, afut, body, invoked, finished,
                   submitted, outer, printed, logged, svars>>

\* What a task does when its coroutine ends with res: the task is done and its
\* done callbacks are scheduled (gather's _done_callback when gather made the task).
TaskDone(i, res, rest) ==
    /\ task' = [task EXCEPT ![i] = [st |-> "done", res |-> res]]
    /\ ready' = IF parent = "gather"
                THEN Append(rest, Handle("gather_done", i))
                ELSE rest

\* The first step of task i: call_api_func calls api_func(), that is run, which
\* hands pfunc to loop.run_in_executor and awaits the future it returns.
TaskStep(i) ==
    /\ Next_handle("step", i)
    /\ LET c == calls[i]
           r == run(c.func, c.args, c.kw)
           e == ExecutorOf(r.executor)
       IN  IF r.via = "run_in_executor"
           THEN /\ pool' = [pool EXCEPT ![e] = submit(@, i, max_workers(e))]
                /\ body' = [body EXCEPT ![i] =
                              [st |-> "queued", thread |-> "none", left |-> 0,
                               pool |-> e, pfunc |-> r.pfunc]]
                /\ submitted' = Append(submitted, i)
                /\ task' = [task EXCEPT ![i].st = "awaiting"]
                /\ ready' = Tail(ready)
                /\ UNCHANGED invoked
           ELSE \* pfunc() called in the coroutine itself, on the loop thread
                /\ body' = [body EXCEPT ![i] =
                              [st |-> "running", thread |-> "loop",
                               left |-> Seconds(r.pfunc.func, r.pfunc.args,
                                                r.pfunc.keywords),
                               pool |-> None,
                               pfunc |-> r.pfunc]]
                /\ invoked' = [invoked EXCEPT ![i] =
                                 [args |-> r.pfunc.args, kwargs |-> r.pfunc.keywords,
                                  thread |-> "loop", times |-> @.times + 1]]
                /\ task' = [task EXCEPT ![i].st = "running"]
                /\ ready' = Tail(ready)
                /\ UNCHANGED <<pool, submitted>>
    /\ UNCHANGED <<cpu, calls, parent, cfut, afut, finished, outer, mainpc, printed,
                   logged, svars>>

\* A worker thread of executor e takes the next work item and calls it.
WorkerStart(e) ==
    /\ pool[e].queue # <<>>
    /\ Busy(e) < pool[e].threads
    /\ LET i == Head(pool[e].queue)
       IN  /\ pool' = [pool EXCEPT ![e].queue = Tail(@)]
           /\ body' = [body EXCEPT ![i].st = "running", ![i].thread = "worker",
                                   ![i].left = Seconds(body[i].pfunc.func,
                                                      body[i].pfunc.args,
                                                      body[i].pfunc.keywords)]
           /\ invoked' = [invoked EXCEPT ![i] =
                            [args |-> body[i].pfunc.args,
                             kwargs |-> body[i].pfunc.keywords,
                             thread |-> "worker", times |-> @.times + 1]]
    /\ UNCHANGED <<cpu, calls, parent, ready, cfut, afut, finished, submitted, task,
                   outer, mainpc, printed, logged, svars>>

\* A second of sleep passes in every blocking call that is still sleeping.
Tick ==
    /\ ready = <<>> \/ LoopBlocked
    /\ \E i \in Ids : body[i].st = "running" /\ body[i].left > 0
    /\ body' = [i \in Ids |->
                  IF body[i].st = "running" /\ body[i].left > 0
                  THEN [body[i] EXCEPT !.left = @ - 1]
                  ELSE body[i]]
    /\ UNCHANGED <<cpu, calls, parent, ready, pool, cfut, afut, invoked, finished,
                   submitted, task, outer, mainpc, printed, logged, svars>>

\* The callable returns or raises.  On a worker thread the work item sets the
\* concurrent future, whose done callback hands _set_state to the loop with
\* call_soon_threadsafe, and the thread releases the idle semaphore.
BodyReturn(i) ==
    /\ body[i].st = "running"
    /\ body[i].left = 0
    /\ LET res == CallPartial(body[i].pfunc)
       IN  IF body[i].thread = "worker"
           THEN /\ cfut' = [cfut EXCEPT ![i] = res]
                /\ pool' = [pool EXCEPT ![body[i].pool].idle = @ + 1]
                /\ ready' = Append(ready, Handle("set_state", i))
                /\ UNCHANGED task
           ELSE /\ TaskDone(i, res, ready)
                /\ UNCHANGED <<cfut, pool>>
    /\ body' = [body EXCEPT ![i].st = "done"]
    /\ finished' = Append(finished, i)
    /\ UNCHANGED <<cpu, calls, parent, afut, invoked, submitted, outer, mainpc,
                   printed, logged, svars>>

\* _set_state on the loop: _copy_future_state copies the concurrent future's
\* outcome to the asyncio future, which schedules the waiting task's wakeup.
\* asyncio's Future.set_exception refuses StopIteration with a TypeError: the
\* callback fails, the loop's exception handler logs it, the future stays pending.
SetState(i) ==
    /\ Next_handle("set_state", i)
    /\ IF cfut[i].kind = "raise" /\ cfut[i].exc = "StopIteration"
       THEN /\ logged' = Append(logged, "TypeError")
            /\ ready' = Tail(ready)
            /\ UNCHANGED afut
       ELSE /\ afut' = [afut EXCEPT ![i] =
                          IF cfut[i].kind = "raise"
                          THEN Raise(_convert_future_exc(cfut[i].exc))
                          ELSE cfut[i]]
            /\ ready' = Append(Tail(ready), Handle("wakeup", i))
            /\ UNCHANGED logged
    /\ UNCHANGED <<cpu, calls, parent, pool, cfut, body, invoked, finished, submitted,
                   task, outer, mainpc, printed, svars>>

\* The task resumes: the await in run yields the future's outcome, run returns it
\* (or the exception propagates), and so does call_api_func.
TaskWakeup(i) ==
    /\ Next_handle("wakeup", i)
    /\ TaskDone(i, afut[i], Tail(ready))
    /\ UNCHANGED <<cpu, calls, parent, pool, cfut, afut, body, invoked, finished,
                   submitted, outer, mainpc, printed, logged, svars>>

\* fut.result() as gather reads it from a child task; every child is done when
\* gather reads it, and a child that raised has already failed the outer future.
result(t) == IF t.res.kind = "return" THEN t.res.value ELSE t.res.kind

\* gather's _done_callback for child i.
GatherDone(i) ==
    /\ Next_handle("gather_done", i)
    /\ LET n == outer.nfinished + 1
           order == gather_order([k \in DOMAIN calls |-> k], finished)
       IN  IF outer.st # "pending"
           THEN /\ outer' = [outer EXCEPT !.nfinished = n]
                /\ ready' = Tail(ready)
           ELSE IF task[i].res.kind = "raise"
           THEN /\ outer' = [outer EXCEPT !.nfinished = n, !.st = "exception",
                                          !.exc = task[i].res.exc]
                /\ ready' = Append(Tail(ready), Handle("main_wakeup", 0))
           ELSE IF gather_complete(n, Len(calls))
           THEN /\ outer' = [outer EXCEPT
                               !.nfinished = n, !.st = "result",
                               !.results = [k \in DOMAIN order |->
                                              result(task[order[k]])],
                               !.from = order]
                /\ ready' = Append(Tail(ready), Handle("main_wakeup", 0))
           ELSE /\ outer' = [outer EXCEPT !.nfinished = n]
                /\ ready' = Tail(ready)
    /\ UNCHANGED <<cpu, calls, parent, pool, cfut, afut, body, invoked, finished,
                   submitted, task, mainpc, printed, logged, svars>>

\* main resumes from its await: a is gather's list, and print(a).
MainResume ==
    /\ Next_handle("main_wakeup", 0)
    /\ mainpc = "awaiting"
    /\ IF outer.st = "result"
       THEN /\ printed' = Append(printed, outer.results)
            /\ mainpc' = "printed"
       ELSE /\ mainpc' = "raised"
            /\ UNCHANGED printed
    /\ ready' = Tail(ready)
    /\ UNCHANGED <<cpu, calls, parent, pool, cfut, afut, body, invoked, finished,
                   submitted, task, outer, logged, svars>>

\* The steps of the event loop thread, and those of the worker threads.
LoopNext ==
    \/ MainStart
    \/ \E i \in Ids : TaskStep(i)
    \/ \E i \in Ids : SetState(i)
    \/ \E i \in Ids : TaskWakeup(i)
    \/ \E i \in Ids : GatherDone(i)
    \/ MainResume

Next ==
    \/ MainStart
    \/ \E i \in Ids : TaskStep(i)
    \/ \E e \in Executors : WorkerStart(e)
    \/ Tick
    \/ \E i \in Ids : BodyReturn(i)
    \/ \E i \in Ids : SetState(i)
    \/ \E i \in Ids : TaskWakeup(i)
    \/ \E i \in Ids : GatherDone(i)
    \/ MainResume

Spec == Init /\ [][Next]_vars

(***************************************************************************)
(* A direct await of the coroutine to_async(func) returns, for any         *)
(* callable and any arguments.                                             *)
(***************************************************************************)

ArgLists == UNION {[1..n -> {1, 2}] : n \in 0..MaxArgs}

\* The keywords a caller may give: run's own loop and executor, and a keyword k
\* meant for the callable.
KwValues(k) ==
    CASE k = "loop" -> {None, "running_loop"}
      [] k = "executor" -> {None, _executor.name}
      [] k = "k" -> {"v"}
KwSets ==
    UNION {{kw \in [S -> {None, "running_loop", _executor.name, "v"}] :
              \A k \in S : kw[k] \in KwValues(k)} :
           S \in SUBSET {"loop", "executor", "k"}}

InitWrap ==
    /\ cpu \in 1..MaxCpu
    /\ \E func \in Callables, args \in ArgLists, kw \in KwSets :
          AsyncInit(<<[func |-> func, args |-> args, kw |-> kw]>>, "toplevel",
                    <<Handle("step", 1)>>, "idle")
    /\ ScanIdle

NextWrap ==
    \/ \E i \in Ids : TaskStep(i)
    \/ \E e \in Executors : WorkerStart(e)
    \/ Tick
    \/ \E i \in Ids : BodyReturn(i)
    \/ \E i \in Ids : SetState(i)
    \/ \E i \in Ids : TaskWakeup(i)

SpecWrap == InitWrap /\ [][NextWrap]_vars

(***************************************************************************)
(* The statistics notebook: the bucket scan loop.                          *)
(*                                                                         *)
(* An object key is a sequence of pieces of text: "/" is the separator,    *)
(* "V" is the text video_data.json, and the other pieces are text without  *)
(* a separator in which video_data.json does not occur.                    *)
(***************************************************************************)

needle == "V"

\* 'video_data.json' in obj.key
contains(key) == \E i \in DOMAIN key : key[i] = needle

\* key.split('/')
RECURSIVE split(_)
split(key) ==
    IF \A i \in DOMAIN key : key[i] # "/"
    THEN <<key>>
    ELSE LET i == CHOOSE j \in DOMAIN key :
                     key[j] = "/" /\ \A k \in 1..(j - 1) : key[k] # "/"
         IN  <<SubSeq(key, 1, i - 1)>> \o split(SubSeq(key, i + 1, Len(key)))

\* '/'.join(segments)
RECURSIVE join(_)
join(segments) ==
    IF segments = <<>> THEN <<>>
    ELSE IF Len(segments) = 1 THEN segments[1]
    ELSE segments[1] \o <<"/">> \o join(Tail(segments))

\* vid_path = '/'.join(obj.key.split('/')[:-1])
vid_path(key) == join(SubSeq(split(key), 1, Len(split(key)) - 1))

\* A number as an exact fraction: Python's true division does not truncate.
Fraction(n, d) == [num |-> n, den |-> d]

\* vid_len taken from the first entry of most_watched_moments.
vid_len_first(vid_data) ==
    Fraction(vid_data["most_watched_moments"][1]["time_end_ms"], 1000)

\* vid_len = vid_data['most_watched_moments'][-1]['time_end_ms']/1000
vid_len(vid_data) ==
    LET moments == vid_data["most_watched_moments"]
    IN  Fraction(moments[Len(moments)]["time_end_ms"], 1000)

\* all_data[k] = v on a dictionary kept as the sequence of its items, in
\* insertion order: an existing key keeps its place and takes the new value.
dict_set(d, k, v) ==
    IF \E i \in DOMAIN d : d[i].k = k
    THEN [i \in DOMAIN d |-> IF d[i].k = k THEN [k |-> k, v |-> v] ELSE d[i]]
    ELSE Append(d, [k |-> k, v |-> v])

dict_keys(d) == {d[i].k : i \in DOMAIN d}
dict_get(d, k) == d[CHOOSE i \in DOMAIN d : d[i].k = k].v

\* What bucket.download_file and the file it wrote can be: the download fails,
\* the file is not JSON, or it is the JSON object data.
Entries == {[time_end_ms |-> 1500], [time_end_ms |-> 2000], [time_start_ms |-> 0]}
MomentLists ==
    {<<>>} \cup {<<e>> : e \in Entries}
           \cup {<<[time_end_ms |-> 1500], [time_end_ms |-> 2000]>>,
                 <<[time_end_ms |-> 2000], [time_end_ms |-> 1500]>>,
                 <<[time_end_ms |-> 2000], [time_start_ms |-> 0]>>}
Files ==
    {[kind |-> "download_error"], [kind |-> "not_json"],
     [kind |-> "json", data |-> [video_id |-> "id"]]}
    \cup {[kind |-> "json", data |-> [most_watched_moments |-> m]] :
            m \in MomentLists}

\* The keys the bucket may list.
ObjectKeys ==
    {<<"a", "/", needle>>, <<"b", "/", needle>>, <<"a", "/", "x">>, <<needle>>,
     <<"a", "/", needle, "x">>, <<"a", needle, "/", "x">>}

NotDownloaded == [kind |-> "not_downloaded"]

\* The body of the for loop with its exception swallowed: a failing object is
\* skipped.
scan_body_skips_failures(data, key, file) ==
    IF contains(key) /\ file.kind = "json"
       /\ "most_watched_moments" \in DOMAIN file.data
       /\ file.data["most_watched_moments"] # <<>>
       /\ "time_end_ms" \in DOMAIN
            file.data["most_watched_moments"][Len(file.data["most_watched_moments"])]
    THEN [all_data |-> dict_set(data, vid_path(key), vid_len(file.data)),
          exc |-> None]
    ELSE [all_data |-> data, exc |-> None]

\* The body of the for loop for one object: the dictionary after it, and the
\* exception it raised if any (download_file, json.load, the subscripts).
scan_body(data, key, file) ==
    IF ~contains(key) THEN [all_data |-> data, exc |-> None]
    ELSE IF file.kind = "download_error"
    THEN [all_data |-> data, exc |-> "ClientError"]
    ELSE IF file.kind = "not_json"
    THEN [all_data |-> data, exc |-> "JSONDecodeError"]
    ELSE IF "most_watched_moments" \notin DOMAIN file.data
    THEN [all_data |-> data, exc |-> "KeyError"]
    ELSE IF file.data["most_watched_moments"] = <<>>
    THEN [all_data |-> data, exc |-> "IndexError"]
    ELSE IF "time_end_ms" \notin DOMAIN
              file.data["most_watched_moments"][Len(file.data["most_watched_moments"])]
    THEN [all_data |-> data, exc |-> "KeyError"]
    ELSE [all_data |-> dict_set(data, vid_path(key), vid_len(file.data)),
          exc |-> None]

\* Nothing of the async notebook runs.
AsyncIdle ==
    /\ cpu = 1
    /\ AsyncInit(<<>>, "none", <<>>, "idle")

\* The cell is about to run: all_data = {}.
InitScan ==
    /\ AsyncIdle
    /\ bucket = <<>>
    /\ all_data = <<>>
    /\ scanpc = "loop"
    /\ scan_exc = None
    /\ df = <<>>
    /\ df_vids = <<>>
    /\ final_df = <<>>
    /\ stats = EmptyKw

\* One iteration: the listing yields the next object; a matching object is
\* downloaded and read.  An exception ends the cell.
ScanStep ==
    /\ scanpc = "loop"
    /\ Len(bucket) < MaxObjects
    /\ \E key \in ObjectKeys, f \in Files :
          LET file == IF contains(key) THEN f ELSE NotDownloaded
              r == scan_body(all_data, key, file)
          IN  /\ bucket' = Append(bucket, [key |-> key, file |-> file])
              /\ all_data' = r.all_data
              /\ scan_exc' = r.exc
              /\ scanpc' = IF r.exc = None THEN "loop" ELSE "failed"
    /\ UNCHANGED <<avars, df, df_vids, final_df, stats>>

\* The listing is exhausted: the loop and the cell end.
ScanEnd ==
    /\ scanpc = "loop"
    /\ scanpc' = "done"
    /\ UNCHANGED <<avars, bucket, all_data, scan_exc, df, df_vids, final_df, stats>>

NextScan ==
    \/ ScanStep
    \/ ScanEnd

SpecScan == InitScan /\ [][NextScan]_vars

(***************************************************************************)
(* The statistics notebook: the data frames and the grouped statistics.    *)
(***************************************************************************)

\* df = pd.DataFrame(list(all_data.items()), columns=['s3_path', 'vid_len'])
DataFrame(items) ==
    [i \in DOMAIN items |-> [s3_path |-> items[i].k, vid_len |-> items[i].v]]

\* merge as it would be without its key: every pair of rows.
RECURSIVE merge_cross(_, _)
merge_cross(left, right) ==
    IF left = <<>> THEN <<>>
    ELSE [j \in DOMAIN right |->
            [s3_path |-> Head(left).s3_path, vid_len |-> Head(left).vid_len,
             category_id |-> right[j].category_id]]
         \o merge_cross(Tail(left), right)

\* The rows of right whose s3_path is path, in order.
RECURSIVE rows_with(_, _)
rows_with(right, path) ==
    IF right = <<>> THEN <<>>
    ELSE (IF Head(right).s3_path = path THEN <<Head(right)>> ELSE <<>>)
         \o rows_with(Tail(right), path)

\* df.merge(df_vids, on='s3_path'): the inner join, one row for every pair of a
\* left and a right row with the same s3_path.
RECURSIVE merge(_, _)
merge(left, right) ==
    IF left = <<>> THEN <<>>
    ELSE LET l == Head(left)
             rs == rows_with(right, l.s3_path)
         IN  [j \in DOMAIN rs |->
                [s3_path |-> l.s3_path, vid_len |-> l.vid_len,
                 category_id |-> rs[j].category_id]]
             \o merge(Tail(left), right)

\* The vid_len values of the rows of category c, in thousandths (every vid_len is
\* a number of milliseconds over 1000).
RECURSIVE group_values(_, _)
group_values(rows, c) ==
    IF rows = <<>> THEN <<>>
    ELSE (IF Head(rows).category_id = c THEN <<Head(rows).vid_len.num>> ELSE <<>>)
         \o group_values(Tail(rows), c)

RECURSIVE Sum(_)
Sum(xs) == IF xs = <<>> THEN 0 ELSE Head(xs) + Sum(Tail(xs))

RECURSIVE SumSquares(_)
SumSquares(xs) == IF xs = <<>> THEN 0 ELSE Head(xs) * Head(xs) + SumSquares(Tail(xs))

\* xs in ascending order.
RECURSIVE sorted(_)
sorted(xs) ==
    IF xs = <<>> THEN <<>>
    ELSE LET i == CHOOSE j \in DOMAIN xs : \A k \in DOMAIN xs : xs[j] <= xs[k]
         IN  <<xs[i]>> \o sorted([k \in 1..(Len(xs) - 1) |->
                                     IF k < i THEN xs[k] ELSE xs[k + 1]])

\* agg(['min', 'max', 'std', 'mean', 'count', 'median']) of one group; std is
\* kept as its square, the sample variance, which is NaN (0/0) for one value.
agg(xs) ==
    LET n == Len(xs)
        s == sorted(xs)
    IN  [min    |-> Fraction(s[1], 1000),
         max    |-> Fraction(s[n], 1000),
         var    |-> IF n = 1 THEN Fraction(0, 0)
                    ELSE Fraction(n * SumSquares(xs) - Sum(xs) * Sum(xs),
                                  n * (n - 1) * 1000000),
         mean   |-> Fraction(Sum(xs), 1000 * n),
         count  |-> n,
         median |-> IF n % 2 = 1 THEN Fraction(s[(n + 1) \div 2], 1000)
                    ELSE Fraction(s[n \div 2] + s[n \div 2 + 1], 2000)]

\* final_df.groupby('category_id')['vid_len'].agg([...]): one column per
\* category_id that is not null.
groupby_agg(rows) ==
    [c \in {rows[i].category_id : i \in DOMAIN rows} \ {None} |->
        agg(group_values(rows, c))]

\* The scan loop run over a whole listing.
RECURSIVE scan_all(_, _)
scan_all(data, listing) ==
    IF listing = <<>> THEN data
    ELSE scan_all(scan_body(data, Head(listing).key, Head(listing).file).all_data,
                  Tail(listing))

\* Listings of readable video_data.json objects, and the tables
\* SELECT * FROM autoshorts.videos may return.
VideoObjects ==
    {[key |-> k, file |-> [kind |-> "json",
                           data |-> [most_watched_moments |-> <<e>>]]] :
        k \in {<<"a", "/", needle>>, <<"b", "/", needle>>},
        e \in {[time_end_ms |-> 1500], [time_end_ms |-> 2000]}}
Listings == UNION {[1..n -> VideoObjects] : n \in 0..MaxVideos}
TableRows ==
    {[s3_path |-> p, category_id |-> c] :
        p \in {<<"a">>, <<"b">>, <<"z">>}, c \in {"17", "24", None}}
Tables == UNION {[1..n -> TableRows] : n \in 0..MaxRows}

\* The scan cell has finished over some listing.
InitStats ==
    /\ AsyncIdle
    /\ \E listing \in Listings :
          /\ bucket = listing
          /\ all_data = scan_all(<<>>, listing)
    /\ scanpc = "done"
    /\ scan_exc = None
    /\ df = <<>>
    /\ df_vids = <<>>
    /\ final_df = <<>>
    /\ stats = EmptyKw

BuildDf ==
    /\ scanpc = "done"
    /\ df' = DataFrame(all_data)
    /\ scanpc' = "df"
    /\ UNCHANGED <<avars, bucket, all_data, scan_exc, df_vids, final_df, stats>>

\* pd.read_sql_query(...)[['s3_path', 'category_id']]
ReadVideos ==
    /\ scanpc = "df"
    /\ df_vids' \in Tables
    /\ scanpc' = "vids"
    /\ UNCHANGED <<avars, bucket, all_data, scan_exc, df, final_df, stats>>

Merge ==
    /\ scanpc = "vids"
    /\ final_df' = merge(df, df_vids)
    /\ scanpc' = "merged"
    /\ UNCHANGED <<avars, bucket, all_data, scan_exc, df, df_vids, stats>>

GroupBy ==
    /\ scanpc = "merged"
    /\ stats' = groupby_agg(final_df)
    /\ scanpc' = "grouped"
    /\ UNCHANGED <<avars, bucket, all_data, scan_exc, df, df_vids, final_df>>

NextStats ==
    \/ BuildDf
    \/ ReadVideos
    \/ Merge
    \/ GroupBy

SpecStats == InitStats /\ [][NextStats]_vars

(***************************************************************************)
(* Properties of the async notebook.                                       *)
(***************************************************************************)

\* What the caller's call func(args, keywords) gives when made directly: the
\* caller's keywords are those not consumed by run's own loop and executor.
CallerKwargs(kw) == [k \in (DOMAIN kw) \ {"loop", "executor"} |-> kw[k]]
Direct(i) == Apply(calls[i].func, calls[i].args, CallerKwargs(calls[i].kw))

\* No handle is ready and no blocking call is queued or running.
Quiescent ==
    /\ ready = <<>>
    /\ \A i \in Ids : body[i].st \in {"none", "done"}

\* C1: awaiting to_async(f) with any arguments resolves to exactly the value f
\* returns for them: f is called once its turn comes with the caller's positional
\* and keyword arguments, without run's loop and executor keywords, and when f
\* returns v the await yields v (and has yielded it once the loop is quiescent).
C1_ResolvesToReturnValue ==
    \A i \in Ids :
        /\ invoked[i].times > 0 =>
              /\ invoked[i].args = calls[i].args
              /\ invoked[i].kwargs = CallerKwargs(calls[i].kw)
        /\ (task[i].st = "done" /\ Direct(i).kind = "return") =>
              task[i].res = Direct(i)
        /\ (Quiescent /\ body[i].st = "done" /\ Direct(i).kind = "return") =>
              (task[i].st = "done" /\ task[i].res = Direct(i))

\* A call with positional and keyword arguments, and the wrapper's own keywords
\* besides, has resolved to what the callable returned for the caller's arguments.
C1_Witness ==
    /\ parent = "toplevel"
    /\ calls[1].func = "echo"
    /\ Len(calls[1].args) = 2
    /\ DOMAIN calls[1].kw = {"loop", "executor", "k"}
    /\ task[1].st = "done"
    /\ task[1].res.kind = "return"

\* C2: when the wrapped callable raises, the await ends by raising that same
\* exception: it never yields a value, and it is not left pending once the loop
\* has nothing more to run.
C2_PropagatesException ==
    \A i \in Ids :
        (body[i].st = "done" /\ Direct(i).kind = "raise") =>
            /\ task[i].st = "done" => task[i].res = Direct(i)
            /\ Quiescent => (task[i].st = "done" /\ task[i].res = Direct(i))

\* C3: the four api_func calls of main are serialized: at most one body runs at
\* a time, and a body starts only when every call submitted before it is done.
C3_Serialized ==
    /\ Cardinality({i \in Ids : body[i].st = "running"}) <= 1
    /\ \A i, j \in Ids :
          (i < j /\ body[j].st \in {"running", "done"}) => body[i].st = "done"

\* C4: the list gather gives main holds, at position i, the result of the i-th
\* coroutine, whatever the order in which the blocking calls finished.
C4_SubmissionOrder ==
    printed # <<>> =>
        /\ Len(printed[1]) = Len(gather_args)
        /\ outer.from = [i \in DOMAIN gather_args |-> i]
        /\ \A i \in DOMAIN gather_args :
              /\ task[i].res.kind = "return"
              /\ printed[1][i] = task[i].res.value
              /\ printed[1][i] = Direct(i).value

\* main has printed although the last call submitted finished first.
C4_Witness ==
    /\ mainpc = "printed"
    /\ printed # <<>>
    /\ Len(finished) = Len(gather_args)
    /\ finished[1] = Len(gather_args)

\* C5: gather resolves, and main prints, only once all four calls have completed;
\* the list has one entry per call, and nothing is printed before.
C5_FanIn ==
    /\ (outer.st # "pending" \/ mainpc = "printed" \/ printed # <<>>) =>
          /\ \A i \in Ids : body[i].st = "done" /\ task[i].st = "done"
          /\ outer.nfinished = Len(gather_args)
          /\ Len(outer.results) = Len(gather_args)
    /\ printed # <<>> =>
          /\ Len(printed) = 1
          /\ Len(printed[1]) = Len(gather_args)
          /\ mainpc = "printed"

\* gather has resolved with its list and main is about to print it.
C5_Witness ==
    /\ outer.st = "result"
    /\ Len(outer.results) = Len(gather_args)
    /\ mainpc = "awaiting"

\* C6: a blocking call never runs on the event loop's thread; while a call is
\* executing on a worker the loop still runs whatever handle is ready; and all
\* four calls of main are submitted before the first of them finishes.
C6_LoopNotBlocked ==
    /\ \A i \in Ids : invoked[i].times > 0 => invoked[i].thread = "worker"
    /\ ((\E i \in Ids : body[i].st = "running") /\ ready # <<>>) =>
          ENABLED LoopNext
    /\ finished # <<>> => Len(submitted) = Len(gather_args)

\* The first call is executing on a worker while the loop has submitted a later
\* one and still has a task to step.
C6_Witness ==
    /\ body[1].st = "running"
    /\ body[1].thread = "worker"
    /\ Len(submitted) = 2
    /\ ready # <<>>
    /\ finished = <<>>

\* The scheduling the event loop and the thread pool give: the loop runs a ready
\* handle, an idle worker takes queued work, a sleeping call's time passes and a
\* call whose sleep is over returns.
FairSpec ==
    /\ Spec
    /\ WF_vars(LoopNext)
    /\ WF_vars(\E e \in Executors : WorkerStart(e))
    /\ WF_vars(Tick)
    /\ WF_vars(\E i \in DOMAIN gather_args : BodyReturn(i))

\* C7: main terminates: every dispatched call is eventually run and completed and
\* main eventually prints [1, 1, 1, 1].
C7_Terminates ==
    <>(/\ printed = <<<<1, 1, 1, 1>>>>
       /\ mainpc = "printed"
       /\ \A i \in DOMAIN gather_args :
             body[i].st = "done" /\ invoked[i].times > 0 /\ task[i].st = "done")

\* main has printed the list and nothing is left to run.
C7_Witness ==
    /\ printed = <<<<1, 1, 1, 1>>>>
    /\ Quiescent
    /\ \A e \in Executors : pool[e].queue = <<>>

(***************************************************************************)
(* Properties of the bucket scan loop.                                     *)
(***************************************************************************)

\* The key without its last '/'-separated segment: what precedes its last "/",
\* and nothing when it has none.
ParentPath(key) ==
    LET slashes == {i \in DOMAIN key : key[i] = "/"}
    IN  IF slashes = {} THEN <<>>
        ELSE SubSeq(key, 1, (CHOOSE i \in slashes : \A j \in slashes : j <= i) - 1)

\* The positions of the listing whose key contains video_data.json.
Matching(listing) == {i \in DOMAIN listing : contains(listing[i].key)}

\* The last matching object of the listing with parent path p.
LastWith(listing, p) ==
    CHOOSE i \in Matching(listing) :
        /\ ParentPath(listing[i].key) = p
        /\ \A j \in Matching(listing) : ParentPath(listing[j].key) = p => j <= i

\* time_end_ms of the last entry of most_watched_moments of an object's file.
LastTimeEnd(o) ==
    LET m == o.file.data["most_watched_moments"] IN m[Len(m)]["time_end_ms"]

\* data maps exactly the parent paths of the listing's matching objects, each to
\* the duration in seconds of the last matching object with that path.
DataMatches(data, listing) ==
    /\ Len(data) = Cardinality(dict_keys(data))
    /\ dict_keys(data) = {ParentPath(listing[i].key) : i \in Matching(listing)}
    /\ \A p \in dict_keys(data) :
          dict_get(data, p).num * 1000
             = LastTimeEnd(listing[LastWith(listing, p)]) * dict_get(data, p).den

\* C8: when the scan loop finishes without failure, all_data's keys are exactly
\* the parent paths of the objects whose key contains video_data.json, objects
\* without it add nothing, and each value is time_end_ms of the last
\* most_watched_moments entry divided by 1000, the object listed last winning.
C8_ScanResult == scanpc = "done" => DataMatches(all_data, bucket)

\* The loop has finished after two matching objects with the same parent path
\* and different durations.
C8_Witness ==
    /\ scanpc = "done"
    /\ \E i, j \in Matching(bucket) :
          /\ i < j
          /\ ParentPath(bucket[i].key) = ParentPath(bucket[j].key)
          /\ bucket[i].key # bucket[j].key
          /\ LastTimeEnd(bucket[i]) # LastTimeEnd(bucket[j])

\* An object the loop body fails on: its key matches and the download fails, the
\* file is not JSON, most_watched_moments is missing or empty, or its last entry
\* has no time_end_ms.
Failing(o) ==
    /\ contains(o.key)
    /\ \/ o.file.kind \in {"download_error", "not_json"}
       \/ /\ o.file.kind = "json"
          /\ \/ "most_watched_moments" \notin DOMAIN o.file.data
             \/ o.file.data["most_watched_moments"] = <<>>
             \/ "time_end_ms" \notin DOMAIN
                   o.file.data["most_watched_moments"]
                      [Len(o.file.data["most_watched_moments"])]

\* C10: a failure on one object ends the cell with an exception: the failing
\* object is the last one processed, no entry is written for it, and all_data
\* holds what the earlier objects put there.
C10_FailureEndsCell ==
    /\ \A i \in DOMAIN bucket :
          Failing(bucket[i]) =>
              (i = Len(bucket) /\ scanpc = "failed" /\ scan_exc # None)
    /\ scanpc = "failed" =>
          /\ bucket # <<>>
          /\ Failing(bucket[Len(bucket)])
          /\ ~ENABLED NextScan
          /\ DataMatches(all_data, SubSeq(bucket, 1, Len(bucket) - 1))

\* The loop failed on an object whose parent path already had an entry.
C10_Witness ==
    /\ scanpc = "failed"
    /\ scan_exc = "IndexError"
    /\ Len(bucket) = 2
    /\ ParentPath(bucket[2].key) \in dict_keys(all_data)

(***************************************************************************)
(* Properties of the grouped statistics.                                   *)
(***************************************************************************)

\* The rows of the videos table whose s3_path is a key of all_data.
JoinedRows == {i \in DOMAIN df_vids : df_vids[i].s3_path \in dict_keys(all_data)}

\* The rows of the videos table that put a video in category c.
CategoryRows(c) == {i \in JoinedRows : df_vids[i].category_id = c}

RECURSIVE SumCounts(_)
SumCounts(cs) ==
    IF cs = {} THEN 0
    ELSE LET c == CHOOSE x \in cs : TRUE
         IN  stats[c].count + SumCounts(cs \ {c})

FractionLe(a, b) == a.num * b.den <= b.num * a.den

\* What C9 states apart from the bound on the sum of the counts: the categories
\* are those of table rows whose path is a key of all_data, each count is the
\* number of joined rows of the category, min and max are the least and the
\* greatest duration of those rows, and min <= median <= max.
StatsOfJoin ==
    /\ DOMAIN stats = {df_vids[i].category_id : i \in JoinedRows} \ {None}
    /\ \A i \in DOMAIN final_df :
          /\ final_df[i].s3_path \in dict_keys(all_data)
          /\ \E j \in DOMAIN df_vids : df_vids[j].s3_path = final_df[i].s3_path
    /\ \A c \in DOMAIN stats :
          /\ stats[c].count = Cardinality(CategoryRows(c))
          /\ \A i \in CategoryRows(c) :
                /\ FractionLe(stats[c].min, dict_get(all_data, df_vids[i].s3_path))
                /\ FractionLe(dict_get(all_data, df_vids[i].s3_path), stats[c].max)
          /\ FractionLe(stats[c].min, stats[c].median)
          /\ FractionLe(stats[c].median, stats[c].max)

\* C9 as stated: the statistics are those of the join, and every video of
\* all_data is counted at most once over all categories.
C9_CountedAtMostOnce ==
    scanpc = "grouped" =>
        /\ StatsOfJoin
        /\ SumCounts(DOMAIN stats) <= Len(all_data)

\* C9 as amended: the statistics are those of the join, and a video is counted
\* once for every table row that carries its s3_path and a category: the sum of
\* the counts never exceeds the number of table rows whose path is a key of
\* all_data.
C9_CountedOncePerTableRow ==
    scanpc = "grouped" =>
        /\ StatsOfJoin
        /\ SumCounts(DOMAIN stats) <= Cardinality(JoinedRows)
        /\ SumCounts(DOMAIN stats)
              = Cardinality({i \in JoinedRows : df_vids[i].category_id # None})

\* The statistics of a join in which one video is counted twice.
C9_Witness ==
    /\ scanpc = "grouped"
    /\ Len(all_data) = 1
    /\ \E c \in DOMAIN stats : stats[c].count = 2

(***************************************************************************)
(* How often the wrapped callable runs.                                    *)
(***************************************************************************)

\* await main(), or a direct await of the coroutine to_async(func) returns.
InitAwaits == Init \/ InitWrap

SpecAwaits == InitAwaits /\ [][Next]_vars

\* How many times call i was handed to run_in_executor.
Submissions(i) == Cardinality({k \in DOMAIN submitted : submitted[k] = i})

\* C11: each await of a to_async-wrapped function submits the callable to the
\* executor exactly once and the callable runs exactly once: never twice, and
\* once when the await has resolved; when main has printed, the api_func body
\* has been executed exactly four times.
C11_RunsExactlyOnce ==
    /\ \A i \in Ids :
          /\ invoked[i].times <= 1
          /\ Submissions(i) <= 1
          /\ invoked[i].times <= Submissions(i)
          /\ body[i].st \in {"running", "done"} => invoked[i].times = 1
          /\ task[i].st \in {"awaiting", "done"} => Submissions(i) = 1
          /\ task[i].st = "done" => invoked[i].times = 1
    /\ mainpc = "printed" =>
          /\ Sum([i \in DOMAIN calls |-> invoked[i].times]) = Len(gather_args)
          /\ Len(submitted) = Len(gather_args)
          /\ Len(finished) = Len(gather_args)

\* main has printed after each of its four calls ran once.
C11_Witness ==
    /\ parent = "gather"
    /\ mainpc = "printed"
    /\ \A i \in Ids : invoked[i].times = 1 /\ Submissions(i) = 1
    /\ Len(finished) = Len(gather_args)

====
